---- MODULE Spec2Model ----
(***************************************************************************)
(* Model of the two icon generation scripts of the repository:             *)
(*   scripts/generate-icons.py         create_app_icon(size) and main()    *)
(*   desk/build-resources/create_icon.py   the single-icon module script   *)
(*                                                                         *)
(* The image library and the operating system are the environment.  Each   *)
(* library call that can raise is a fault point; which fault points raise  *)
(* in a call, which candidate fonts load and which bounding box the text   *)
(* measurement returns are inputs drawn from bounded sets.  An image is    *)
(* the record of its mode, its pixel size, its background and the drawing  *)
(* operations applied to it, in order.                                     *)
(***************************************************************************)
EXTENDS Integers, Sequences, FiniteSets, TLC

VARIABLES pc, i, console, writes, exitCode, font, call, world, argv, img

vars == <<pc, i, console, writes, exitCode, font, call, world, argv, img>>

(***************************************************************************)
(* Bounds of the model (inputs of the environment).                        *)
(***************************************************************************)
\* the text bounding box starts at most this many pixels right of / below
\* the drawing origin (bbox[0], bbox[1] in 0..MaxBearing)
MaxBearing == 2
\* the measured text extent is the nominal one plus 0..MaxExtra pixels
MaxExtra == 1
\* sizes 1..MaxSmallSize are rendered besides the driver's six sizes
MaxSmallSize == 3
\* in a run of main the first 0..MaxMissingFonts candidate fonts are missing
\* from the disk
MaxMissingFonts == 1

(***************************************************************************)
(* Strings: decimal formatting of f-strings and os.path.join.              *)
(***************************************************************************)
Digits == <<"0", "1", "2", "3", "4", "5", "6", "7", "8", "9">>

RECURSIVE Str(_)
Str(n) == IF n < 10 THEN Digits[n + 1]
          ELSE Str(n \div 10) \o Digits[(n % 10) + 1]

path_join(dir, name) == dir \o "/" \o name

(***************************************************************************)
(* generate-icons.py: program constants.                                   *)
(***************************************************************************)
sizes == <<16, 32, 64, 128, 256, 512>>

fonts_to_try == << "/usr/share/fonts/truetype/dejavu/DejaVuSans-Bold.ttf",
                   "/System/Library/Fonts/Helvetica.ttc",
                   "arial.ttf",
                   "DejaVuSans-Bold.ttf" >>

output_dir == "/home/ai design/desk/build-resources"

BLUE == <<24, 144, 255, 255>>
WHITE == <<255, 255, 255, 255>>
WHITE_200 == <<255, 255, 255, 200>>
NoColor == <<>>

\* the library calls of create_app_icon that may raise
DrawPoints == {"rounded_rectangle", "textbbox", "text", "ellipse"}

\* the sets of calls that raise in one execution of create_app_icon: a call
\* that is not reached does not raise (nothing runs after the border raised,
\* the text is not drawn after the measurement raised, the circle is drawn
\* only after one of the two raised)
RenderFaults ==
    {F \in SUBSET DrawPoints :
        /\ "rounded_rectangle" \in F => F = {"rounded_rectangle"}
        /\ ~({"textbbox", "text"} \subseteq F)
        /\ "ellipse" \in F => ("textbbox" \in F \/ "text" \in F)}

\* the same for one try body of main, where icon.save is reached when
\* create_app_icon returned
StepFaults ==
    RenderFaults \cup
    {F \cup {"save"} : F \in {G \in RenderFaults :
                                 "rounded_rectangle" \notin G /\ "ellipse" \notin G}}

(***************************************************************************)
(* Fonts.  A font is its source and its pixel size.                        *)
(***************************************************************************)
NoFont == [path |-> "None", size |-> 0]
DefaultFont == [path |-> "load_default", size |-> 0]

\* int(size * 0.35): the double product truncated.  0.35 is not a binary
\* fraction: for these sizes (all of them up to 2048) the product falls just
\* below the integer 35*size/100.
FloatShort == {180, 340, 360, 660, 680, 700, 720, 1300, 1320, 1340, 1360,
               1380, 1400, 1420, 1440, 1460}

FontSize(size) == ((35 * size) \div 100) - (IF size \in FloatShort THEN 1 ELSE 0)

\* ImageFont.truetype(path, size) for a candidate that loads
truetype(k, size) == [path |-> fonts_to_try[k], size |-> size]

\* the for loop over fonts_to_try from candidate k on, font being the value
\* assigned so far: a candidate that loads is assigned and ends the loop
\* (break), one that raises is skipped (except: continue).  tried lists the
\* candidates handed to truetype.
\* a loop without the break: every candidate is tried and the last one
\* that loads is kept
RECURSIVE TryFontsNoBreak(_, _, _, _, _)
TryFontsNoBreak(k, size, loadable, f, tried) ==
    IF k > Len(fonts_to_try) THEN [font |-> f, tried |-> tried]
    ELSE IF k \in loadable
         THEN TryFontsNoBreak(k + 1, size, loadable,
                              truetype(k, FontSize(size)), Append(tried, k))
         ELSE TryFontsNoBreak(k + 1, size, loadable, f, Append(tried, k))

RECURSIVE TryFonts(_, _, _, _, _)
TryFonts(k, size, loadable, f, tried) ==
    IF k > Len(fonts_to_try) THEN [font |-> f, tried |-> tried]
    ELSE IF k \in loadable
         THEN [font |-> truetype(k, FontSize(size)), tried |-> Append(tried, k)]
         ELSE TryFonts(k + 1, size, loadable, f, Append(tried, k))

\* a font selection that keeps the font an earlier call left behind
SelectFontCached(size, loadable) ==
    IF font # NoFont THEN [font |-> font, tried |-> <<>>]
    ELSE LET t == TryFonts(1, size, loadable, NoFont, <<>>)
         IN  [font |-> IF t.font = NoFont THEN DefaultFont ELSE t.font,
              tried |-> t.tried]

\* font = None; the loop; if font is None: font = ImageFont.load_default()
SelectFont(size, loadable) ==
    LET t == TryFonts(1, size, loadable, NoFont, <<>>)
    IN  [font |-> IF t.font = NoFont THEN DefaultFont ELSE t.font,
         tried |-> t.tried]

(***************************************************************************)
(* Images and drawing operations.                                          *)
(***************************************************************************)
NoImage == [mode |-> "None", size |-> <<0, 0>>, bg |-> NoColor, ops |-> <<>>]

ImageNew(mode, size, color) ==
    [mode |-> mode, size |-> <<size, size>>, bg |-> color, ops |-> <<>>]

Draw(image, op) == [image EXCEPT !.ops = Append(@, op)]

\* a border with the inset and the corner radius exchanged
BorderOpSwapped(size) ==
    LET margin == size \div 5
        corner_radius == size \div 10
    IN  [op |-> "rounded_rectangle",
         xy |-> <<margin, margin, size - margin, size - margin>>,
         anchor |-> <<margin, margin>>,
         radius |-> corner_radius, fill |-> NoColor, outline |-> WHITE,
         width |-> size \div 40, text |-> "", font |-> NoFont]

\* draw.rounded_rectangle([(margin, margin), (size - margin, size - margin)],
\*                        radius=size // 5, outline=white, width=size // 40)
BorderOp(size) ==
    LET margin == size \div 10
        corner_radius == size \div 5
    IN  [op |-> "rounded_rectangle",
         xy |-> <<margin, margin, size - margin, size - margin>>,
         anchor |-> <<margin, margin>>,
         radius |-> corner_radius, fill |-> NoColor, outline |-> WHITE,
         width |-> size \div 40, text |-> "", font |-> NoFont]

\* x = (size - text_width) // 2
TextX(size, bbox) == (size - (bbox[3] - bbox[1])) \div 2

\* y = (size - text_height) // 2 - bbox[1]
TextY(size, bbox) == ((size - (bbox[4] - bbox[2])) \div 2) - bbox[2]

\* draw.text((x, y), "AI", font=font, fill=white): the text is drawn with its
\* origin at the anchor (x, y), so that its pixels fill the box that
\* textbbox((0, 0), ...) measured, moved by (x, y)
TextOp(x, y, bbox, f, color) ==
    [op |-> "text",
     xy |-> <<x + bbox[1], y + bbox[2], x + bbox[3], y + bbox[4]>>,
     anchor |-> <<x, y>>,
     radius |-> 0, fill |-> color,
     outline |-> NoColor, width |-> 0, text |-> "AI", font |-> f]

\* a circle as wide as the image (the diameter taken for the radius)
EllipseOpWide(size) ==
    LET center == size \div 2
        radius == size \div 2
    IN  [op |-> "ellipse",
         xy |-> <<center - radius, center - radius,
                  center + radius, center + radius>>,
         anchor |-> <<center - radius, center - radius>>,
         radius |-> radius, fill |-> WHITE_200, outline |-> WHITE,
         width |-> size \div 20, text |-> "", font |-> NoFont]

\* draw.ellipse([(center - radius, center - radius),
\*               (center + radius, center + radius)], fill=..., outline=white,
\*              width=size // 20)
EllipseOp(size) ==
    LET center == size \div 2
        radius == size \div 4
    IN  [op |-> "ellipse",
         xy |-> <<center - radius, center - radius,
                  center + radius, center + radius>>,
         anchor |-> <<center - radius, center - radius>>,
         radius |-> radius, fill |-> WHITE_200, outline |-> WHITE,
         width |-> size \div 20, text |-> "", font |-> NoFont]

\* print(f"绘制文字失败: {e}，使用简单图形"); the exception's text is the library's
TextFailedLine == "text drawing failed: {e}, using a simple shape"

(***************************************************************************)
(* create_app_icon(size) in an environment where the candidates in         *)
(* loadable load, the text measurement returns bbox and the fault points   *)
(* in F raise.  The result tells whether the call raised, the image        *)
(* returned, the lines printed, the local font at the end of the call, the *)
(* candidates tried and the fault points that did raise.                   *)
(***************************************************************************)
\* a handler that prints the message and raises the exception again
TextFallbackReraises(size, image, sel, F, hit) ==
    [raised |-> TRUE, img |-> NoImage, out |-> <<TextFailedLine>>,
     font |-> sel.font, tried |-> sel.tried, hit |-> hit]

\* the except branch of the text block: the message, then the circle
TextFallback(size, image, sel, F, hit) ==
    IF "ellipse" \in F
    THEN [raised |-> TRUE, img |-> NoImage, out |-> <<TextFailedLine>>,
          font |-> sel.font, tried |-> sel.tried, hit |-> hit \cup {"ellipse"}]
    ELSE [raised |-> FALSE, img |-> Draw(image, EllipseOp(size)),
          out |-> <<TextFailedLine>>,
          font |-> sel.font, tried |-> sel.tried, hit |-> hit]

\* the try block: font selection, measurement, placement, drawing
TextBlock(size, image, loadable, bbox, F) ==
    LET sel == SelectFont(size, loadable)
    IN  IF "textbbox" \in F
        THEN TextFallback(size, image, sel, F, {"textbbox"})
        ELSE IF "text" \in F
        THEN TextFallback(size, image, sel, F, {"text"})
        ELSE [raised |-> FALSE,
              img |-> Draw(image, TextOp(TextX(size, bbox), TextY(size, bbox),
                                         bbox, sel.font, WHITE)),
              out |-> <<>>, font |-> sel.font, tried |-> sel.tried, hit |-> {}]

create_app_icon(size, loadable, bbox, F) ==
    LET img0 == ImageNew("RGBA", size, BLUE)
    IN  IF "rounded_rectangle" \in F
        THEN [raised |-> TRUE, img |-> NoImage, out |-> <<>>, font |-> NoFont,
              tried |-> <<>>, hit |-> {"rounded_rectangle"}]
        ELSE TextBlock(size, Draw(img0, BorderOp(size)), loadable, bbox, F)

(***************************************************************************)
(* The environment: fonts on disk and text metrics.                        *)
(***************************************************************************)
Candidates == 1..Len(fonts_to_try)

\* draw.textbbox((0, 0), "AI", font=font): (left, top, right, bottom); the
\* box of a label about half the image wide and a quarter high, its left
\* top corner offset from the origin by the font's bearings
TextBBox(size, m) ==
    <<m.l, m.t, m.l + (size \div 2) + m.dw, m.t + (size \div 4) + m.dh>>

Metrics == [l : 0..MaxBearing, t : 0..MaxBearing,
            dw : 0..MaxExtra, dh : 0..MaxExtra]

(***************************************************************************)
(* generate-icons.py: main().                                              *)
(***************************************************************************)
IconName(size) == "icon-" \o Str(size) \o "x" \o Str(size) \o ".png"

\* a naming that leaves the size out of the file name
IconPathNoSize(size) == path_join(output_dir, "icon.png")

\* icon_path = os.path.join(output_dir, f"icon-{size}x{size}.png")
IconPath(size) == path_join(output_dir, IconName(size))

MainIconPath == path_join(output_dir, "icon.png")

\* the lines main prints, in ASCII (v for the check mark, x for the
\* cross, {e} for the text of the exception, which is the library's)
BannerLine == "start generating the platform icons..."
GeneratingLine(size) == "generating " \o Str(size) \o "x" \o Str(size) \o " icon..."
GeneratingMainLine == "generating main icon (512x512)..."
SavedLine(path) == "  v saved to " \o path
FailedLine(size) == "  x generating " \o Str(size) \o "x" \o Str(size) \o " icon failed: {e}"
FailedMainLine == "  x generating main icon failed: {e}"

SummaryLines == << "icon generation finished",
                   "output directory: " \o output_dir,
                   "note:",
                   "- PNG icons are generated and can be used directly",
                   "- ICO (Windows) needs ImageMagick or another tool",
                   "- ICNS (Mac) needs iconutil or another tool" >>

\* an exception handler that lets the exception end the program
AfterTryAborting(failed, next) == IF failed THEN "crashed" ELSE next

\* try: ... except Exception as e: print(...): the handler prints and control
\* falls through to the statement after the try, failed or not
AfterTry(failed, next) == next

\* the lines of one step with the outcome printed before the work is done
StepLinesOutcomeFirst(generating, printed, outcome) ==
    <<outcome, generating>> \o printed

\* the lines one try statement prints: the progress line, what the renderer
\* printed, then the success line or the handler's failure line
StepLines(generating, printed, outcome) ==
    <<generating>> \o printed \o <<outcome>>

\* the process: still running, or exited with a code (0 when the script ran
\* to its end, 1 when an exception reached the interpreter)
NotExited == <<>>
Exited(code) == <<code>>

\* one try statement of main: render size, save to path; then the lines
\* closing print when control reaches them
TryStep(size, path, generating, failedLine, next, closing) ==
    \E F \in StepFaults :
        LET r == create_app_icon(size, world.loadable,
                                 TextBBox(size, world.metrics), F \ {"save"})
            failed == r.raised \/ "save" \in F
            outcome == IF failed THEN failedLine ELSE SavedLine(path)
        IN  /\ pc' = AfterTry(failed, next)
            /\ console' = console \o StepLines(generating, r.out, outcome)
                                  \o (IF pc' = "crashed" THEN <<>> ELSE closing)
            /\ writes' = IF failed THEN writes
                         ELSE Append(writes, [path |-> path, img |-> r.img])
            /\ font' = IF "rounded_rectangle" \in F THEN font ELSE r.font
            /\ call' = [size |-> size, tried |-> r.tried, hit |-> F]
            /\ exitCode' = IF pc' = "crashed" THEN Exited(1)
                           ELSE IF pc' = "done" THEN Exited(0) ELSE exitCode

NoCall == [size |-> 0, tried |-> <<>>, hit |-> {}]

\* print(banner); os.makedirs(output_dir, exist_ok=True)
MainStart ==
    /\ pc = "start"
    /\ console' = Append(console, BannerLine)
    /\ pc' = "loop"
    /\ i' = 1
    /\ UNCHANGED <<writes, exitCode, font, call, world, argv, img>>

\* os.makedirs raises: nothing catches it, the interpreter exits with 1
MakedirsRaises ==
    /\ pc = "start"
    /\ console' = Append(console, BannerLine)
    /\ pc' = "crashed"
    /\ exitCode' = Exited(1)
    /\ UNCHANGED <<i, writes, font, call, world, argv, img>>

\* one iteration of: for size in sizes
SizeStep ==
    /\ pc = "loop"
    /\ i <= Len(sizes)
    /\ TryStep(sizes[i], IconPath(sizes[i]), GeneratingLine(sizes[i]),
               FailedLine(sizes[i]),
               IF i = Len(sizes) THEN "main_icon" ELSE "loop", <<>>)
    /\ i' = i + 1
    /\ UNCHANGED <<world, argv, img>>

\* the main icon (512x512), then the closing prints; main returns and the
\* interpreter exits with 0
MainIconStep ==
    /\ pc = "main_icon"
    /\ TryStep(512, MainIconPath, GeneratingMainLine, FailedMainLine, "done",
               SummaryLines)
    /\ UNCHANGED <<i, world, argv, img>>

\* the environments of a run of main: the candidates after the first k load
\* (k <= MaxMissingFonts); the label is measured without bearings
DriverWorlds ==
    [loadable : {{c \in Candidates : c > k} : k \in 0..MaxMissingFonts},
     metrics : {m \in Metrics : m.l = 0 /\ m.t = 0 /\ m.dw = 0 /\ m.dh = 0}]

Init ==
    /\ pc = "start"
    /\ i = 0
    /\ console = <<>>
    /\ writes = <<>>
    /\ exitCode = NotExited
    /\ font = NoFont
    /\ img = NoImage
    /\ call = NoCall
    /\ argv = <<"generate-icons.py">>
    /\ world \in DriverWorlds

(***************************************************************************)
(* create_icon.py: the single-icon script (module level code).             *)
(***************************************************************************)
ScriptSize == 512
font_size == 200

\* color='#1890ff' and fill='white' in mode RGB
BLUE_RGB == <<24, 144, 255>>
WHITE_RGB == <<255, 255, 255>>

ScriptFontPath == "/usr/share/fonts/truetype/dejavu/DejaVuSans-Bold.ttf"

\* position = ((size - text_width) // 2, (size - text_height) // 2)
ScriptTextX(size, bbox) == (size - (bbox[3] - bbox[1])) \div 2
ScriptTextY(size, bbox) == (size - (bbox[4] - bbox[2])) \div 2

\* an output path that ignores the command line
OutputPathDefault(args) == "icon.png"

\* output_path = sys.argv[1] if len(sys.argv) > 1 else 'icon.png'
\* (sys.argv[0], the script's name, is argv[1] here)
OutputPath(args) == IF Len(args) > 1 THEN args[2] ELSE "icon.png"

CreatedLine(path) == "v Created icon: " \o path

ScriptArgs == { <<"create_icon.py">>,
                <<"create_icon.py", "build-resources/icon.png">> }

ScriptInit ==
    /\ pc = "s_font"
    /\ i = 0
    /\ console = <<>>
    /\ writes = <<>>
    /\ exitCode = NotExited
    /\ font = NoFont
    /\ img = NoImage
    /\ call = NoCall
    /\ argv \in ScriptArgs
    /\ world \in [loadable : SUBSET {1}, metrics : Metrics]

\* img = Image.new('RGB', (size, size), color='#1890ff'); the font: the one
\* candidate at font_size, or the default font when loading it raises
ScriptFont ==
    /\ pc = "s_font"
    /\ img' = ImageNew("RGB", ScriptSize, BLUE_RGB)
    /\ font' = IF 1 \in world.loadable
               THEN [path |-> ScriptFontPath, size |-> font_size]
               ELSE DefaultFont
    /\ pc' = "s_text"
    /\ UNCHANGED <<i, console, writes, exitCode, call, world, argv>>

\* bbox = draw.textbbox(...); position; draw.text(...): no handler, so a
\* raise ends the script
ScriptText ==
    /\ pc = "s_text"
    /\ \E F \in {{}, {"textbbox"}, {"text"}} :
        LET bbox == TextBBox(ScriptSize, world.metrics)
        IN  /\ call' = [size |-> ScriptSize, tried |-> <<1>>, hit |-> F]
            /\ IF F = {}
               THEN /\ img' = Draw(img, TextOp(ScriptTextX(ScriptSize, bbox),
                                               ScriptTextY(ScriptSize, bbox),
                                               bbox, font, WHITE_RGB))
                    /\ pc' = "s_save"
                    /\ UNCHANGED exitCode
               ELSE /\ pc' = "s_crashed"
                    /\ exitCode' = Exited(1)
                    /\ UNCHANGED img
    /\ UNCHANGED <<i, console, writes, font, world, argv>>

\* img.save(output_path, 'PNG', optimize=True); print(confirmation)
ScriptSave ==
    /\ pc = "s_save"
    /\ \E F \in {{}, {"save"}} :
        /\ call' = [call EXCEPT !.hit = F]
        /\ IF F = {}
           THEN /\ writes' = Append(writes, [path |-> OutputPath(argv), img |-> img])
                /\ console' = Append(console, CreatedLine(OutputPath(argv)))
                /\ pc' = "s_done"
                /\ exitCode' = Exited(0)
           ELSE /\ pc' = "s_crashed"
                /\ exitCode' = Exited(1)
                /\ UNCHANGED <<writes, console>>
    /\ UNCHANGED <<i, font, world, argv, img>>

(***************************************************************************)
(* One call of create_app_icon(size), for any size and any environment.    *)
(***************************************************************************)
RenderSizes == (1..MaxSmallSize) \cup {sizes[k] : k \in DOMAIN sizes}

RenderInit ==
    /\ pc = "call"
    /\ i = 0
    /\ console = <<>>
    /\ writes = <<>>
    /\ exitCode = NotExited
    /\ font = NoFont
    /\ img = NoImage
    /\ call = NoCall
    /\ argv \in {<<s>> : s \in RenderSizes}
    /\ world \in [loadable : SUBSET Candidates, metrics : Metrics]

RenderCall ==
    /\ pc = "call"
    /\ \E F \in RenderFaults :
        LET r == create_app_icon(argv[1], world.loadable,
                                 TextBBox(argv[1], world.metrics), F)
        IN  /\ pc' = IF r.raised THEN "raised" ELSE "returned"
            /\ img' = r.img
            /\ console' = r.out
            /\ font' = r.font
            /\ call' = [size |-> argv[1], tried |-> r.tried, hit |-> F]
    /\ UNCHANGED <<i, writes, exitCode, world, argv>>

(***************************************************************************)
(* Specifications: the two scripts; the renderer (and the single script,   *)
(* which draws its label itself).                                          *)
(***************************************************************************)
ScriptNext == ScriptFont \/ ScriptText \/ ScriptSave

Next == MainStart \/ MakedirsRaises \/ SizeStep \/ MainIconStep \/ ScriptNext

Spec == (Init \/ ScriptInit) /\ [][Next]_vars

RenderNext == RenderCall \/ ScriptNext

RenderSpec == (RenderInit \/ ScriptInit) /\ [][RenderNext]_vars

(***************************************************************************)
(* Properties.                                                             *)
(***************************************************************************)
Finished == pc \in {"returned", "raised"}
ScriptDrew == pc \in {"s_save", "s_done"}

OpsOf(image, kind) == {k \in DOMAIN image.ops : image.ops[k].op = kind}
HasText(image) == OpsOf(image, "text") # {}
HasCircle(image) == OpsOf(image, "ellipse") # {}

Abs(n) == IF n < 0 THEN -n ELSE n

\* C3 as stated: create_app_icon never raises, whichever drawing step
\* fails, and returns a size x size image holding the label or the circle.
C3_RenderNeverRaises ==
    /\ pc # "raised"
    /\ pc = "returned" =>
          /\ img.size = <<call.size, call.size>>
          /\ HasText(img) \/ HasCircle(img)

\* C3 amended: create_app_icon raises exactly when the border drawing or
\* the fallback circle drawing raises; a font load, text measurement or text
\* drawing failure never makes it raise; whenever it returns, the image is
\* size x size and holds the label or else the fallback circle.
C3_RenderRaisesOnlyOnBorderOrCircle ==
    Finished =>
        /\ pc = "raised" <=> call.hit \cap {"rounded_rectangle", "ellipse"} # {}
        /\ pc = "returned" =>
              /\ img.size = <<call.size, call.size>>
              /\ img.mode = "RGBA"
              /\ HasText(img) # HasCircle(img)

C3_Witness ==
    /\ pc = "returned"
    /\ call.size = 1
    /\ world.loadable = {}
    /\ call.hit = {"textbbox"}
    /\ img.size = <<1, 1>>

\* the fallback circle of the claim: centre size/2, radius size/4, outline
\* width size/20, drawn last
IsFallbackCircle(image, size) ==
    /\ Cardinality(OpsOf(image, "ellipse")) = 1
    /\ LET c == image.ops[Len(image.ops)]
       IN  /\ c.op = "ellipse"
           /\ c.xy = <<(size \div 2) - (size \div 4), (size \div 2) - (size \div 4),
                       (size \div 2) + (size \div 4), (size \div 2) + (size \div 4)>>
           /\ c.width = size \div 20
           /\ c.fill = <<255, 255, 255, 200>>
           /\ c.outline = <<255, 255, 255, 255>>

\* C4 as stated: when the text measurement or the text drawing raises, the
\* message is printed, the fallback circle is drawn instead of the text and
\* the image is returned; when neither raises (and the text block is
\* reached) the text is drawn and the circle is not.
C4_TextFailureGivesCircle ==
    Finished =>
        /\ call.hit \cap {"textbbox", "text"} # {} =>
              /\ pc = "returned"
              /\ console = <<TextFailedLine>>
              /\ IsFallbackCircle(img, call.size)
              /\ ~HasText(img)
        /\ call.hit = {} =>
              /\ pc = "returned"
              /\ HasText(img)
              /\ ~HasCircle(img)

\* C4 amended: when the text measurement or the text drawing raises, that
\* exception is caught and the message is printed; then the fallback circle
\* is drawn instead of the text and the image is returned, unless drawing
\* the circle raises itself, in which case that exception leaves
\* create_app_icon.  When no call raises, the text is drawn, the circle is
\* not and nothing is printed.
C4_TextFailureGivesCircleUnlessCircleRaises ==
    Finished =>
        /\ call.hit \cap {"textbbox", "text"} # {} =>
              /\ console = <<TextFailedLine>>
              /\ "ellipse" \in call.hit => pc = "raised"
              /\ "ellipse" \notin call.hit =>
                    /\ pc = "returned"
                    /\ IsFallbackCircle(img, call.size)
                    /\ ~HasText(img)
        /\ call.hit = {} =>
              /\ pc = "returned"
              /\ console = <<>>
              /\ HasText(img)
              /\ ~HasCircle(img)

C4_Witness ==
    /\ pc = "returned"
    /\ call.size = 512
    /\ call.hit = {"text"}
    /\ console = <<TextFailedLine>>
    /\ img.ops[2].xy = <<128, 128, 384, 384>>

\* C5: the candidates are tried in their fixed order from the first one; the
\* first that loads is the font and no later one is tried; when none loads
\* the font is the default font and the call still returns; a font load
\* failure prints nothing and ends neither script.
C5_FirstLoadableFontWins ==
    /\ (Finished /\ "rounded_rectangle" \notin call.hit) =>
          LET n == Len(call.tried)
          IN  /\ n >= 1
              /\ \A k \in 1..n : call.tried[k] = k
              /\ \A k \in 1..(n - 1) : k \notin world.loadable
              /\ IF world.loadable = {}
                 THEN n = Len(fonts_to_try) /\ font = DefaultFont
                 ELSE /\ n \in world.loadable
                      /\ font.path = fonts_to_try[n]
                      /\ font.size = FontSize(call.size)
              /\ call.hit = {} =>
                    /\ pc = "returned"
                    /\ console = <<>>
                    /\ img.ops[Len(img.ops)].font = font
    /\ pc \in {"s_text", "s_save", "s_done", "s_crashed"} =>
          /\ font = IF 1 \in world.loadable
                    THEN [path |-> fonts_to_try[1], size |-> 200]
                    ELSE DefaultFont
          /\ pc = "s_crashed" => call.hit # {}
          /\ \A k \in DOMAIN console : console[k] = CreatedLine(OutputPath(argv))
          /\ ScriptDrew => img.ops[1].font = font

C5_Witness ==
    /\ pc = "returned"
    /\ world.loadable = {3, 4}
    /\ call.tried = <<1, 2, 3>>
    /\ font.path = "arial.ttf"

\* the glyph's pixels are centred within one pixel: the midpoint of its box
\* differs from size/2 by at most 1 on each axis (twice the midpoint from
\* size by at most 2)
Centred(op, size) ==
    /\ Abs(op.xy[1] + op.xy[3] - size) <= 2
    /\ Abs(op.xy[2] + op.xy[4] - size) <= 2

\* C6: for any size >= 16 and any measured bounding box the drawn label,
\* and otherwise the fallback circle, is centred within one pixel of the
\* centre of the image, in both scripts.
C6_GlyphCentred ==
    ((pc = "returned" /\ call.size >= 16) \/ ScriptDrew) =>
        \A k \in DOMAIN img.ops :
            img.ops[k].op \in {"text", "ellipse"} =>
                Centred(img.ops[k], img.size[1])

\* C10: create_app_icon draws the border in every image, first, as a white
\* outline-only rounded rectangle inset by size/10 with corner radius size/5
\* and stroke width size/40; the single-icon script never draws one; for the
\* six sizes of main the rectangle is not degenerate and twice the corner
\* radius does not exceed its side.
C10_BorderGeometry ==
    /\ pc = "returned" =>
          LET s == call.size
              b == img.ops[1]
          IN  /\ OpsOf(img, "rounded_rectangle") = {1}
              /\ Len(img.ops) = 2
              /\ b.xy = <<s \div 10, s \div 10, s - (s \div 10), s - (s \div 10)>>
              /\ b.radius = s \div 5
              /\ b.width = s \div 40
              /\ b.fill = <<>>
              /\ b.outline = <<255, 255, 255, 255>>
              /\ s \in {16, 32, 64, 128, 256, 512} =>
                    /\ b.xy[1] < b.xy[3]
                    /\ 2 * b.radius <= b.xy[3] - b.xy[1]
    /\ pc \in {"s_text", "s_save", "s_done", "s_crashed"} =>
          OpsOf(img, "rounded_rectangle") = {}

C10_Witness ==
    /\ pc = "returned"
    /\ call.size = 16
    /\ img.ops[1].xy = <<1, 1, 15, 15>>
    /\ img.ops[1].radius = 3
    /\ img.ops[1].width = 0
    /\ img.ops[2].op = "text"

(***************************************************************************)
(* Properties of main() of generate-icons.py and of the two processes.     *)
(***************************************************************************)
IsDriver == argv[1] = "generate-icons.py"

\* the try statements of main that have completed
StepsDone == IF pc = "loop" THEN i - 1
             ELSE IF pc = "main_icon" THEN Len(sizes)
             ELSE IF pc = "done" THEN Len(sizes) + 1
             ELSE IF pc = "crashed" /\ i > 0 THEN i - 1
             ELSE 0

StepSize(k) == IF k <= Len(sizes) THEN sizes[k] ELSE 512
StepPath(k) == IF k <= Len(sizes) THEN IconPath(sizes[k]) ELSE MainIconPath
StepGenerating(k) == IF k <= Len(sizes) THEN GeneratingLine(sizes[k])
                     ELSE GeneratingMainLine
StepFailed(k) == IF k <= Len(sizes) THEN FailedLine(sizes[k]) ELSE FailedMainLine

Lines == {console[k] : k \in DOMAIN console}
WrittenPaths == {writes[k].path : k \in DOMAIN writes}

\* C1: a failure while rendering or writing the icon of a size is caught and
\* logged and never ends the run: every step so far was attempted, each has
\* either its failure line or its file, a step in which nothing raised wrote
\* its file whatever happened before, the main icon is attempted and the
\* process exits with 0.
C1_StepFailureNeverAborts ==
    IsDriver =>
        /\ pc = "crashed" => i = 0
        /\ \A k \in 1..StepsDone :
              /\ StepGenerating(k) \in Lines
              /\ (StepFailed(k) \in Lines) # (StepPath(k) \in WrittenPaths)
        /\ (StepsDone >= 1 /\ call.hit = {}) =>
              /\ writes # <<>>
              /\ writes[Len(writes)].path = StepPath(StepsDone)
        /\ pc = "done" =>
              /\ exitCode = <<0>>
              /\ GeneratingMainLine \in Lines

C1_Witness ==
    /\ pc = "done"
    /\ exitCode = <<0>>
    /\ FailedLine(16) \in Lines
    /\ FailedLine(256) \in Lines
    /\ Len(writes) = 5
    /\ SavedLine(MainIconPath) \in Lines

\* C2 as stated: no failure is fatal in either script: the process never
\* ends on an exception, exits with 0, and the single-icon script prints its
\* confirmation line.
C2_NoErrorIsFatal ==
    /\ pc \notin {"crashed", "s_crashed"}
    /\ exitCode # NotExited => exitCode = <<0>>
    /\ (~IsDriver /\ exitCode # NotExited) => console # <<>>

\* C2 amended: in the multi-size script the only fatal failure is that of
\* the output directory creation, which ends the process with exit code 1
\* before any icon is generated; render and write failures are caught and
\* the run exits with 0.  In the single-icon script a font load failure is
\* recovered, but a text measurement, text drawing or file write failure
\* ends the process with exit code 1, nothing written and no confirmation
\* line; when none of these fails it writes the file, prints the
\* confirmation line and exits with 0.
C2_FatalOnlyOutsideHandlers ==
    /\ IsDriver =>
          /\ pc = "crashed" =>
                /\ i = 0
                /\ writes = <<>>
                /\ console = <<BannerLine>>
                /\ exitCode = <<1>>
          /\ pc = "done" => exitCode = <<0>>
          /\ pc \in {"start", "loop", "main_icon"} => exitCode = NotExited
    /\ ~IsDriver =>
          /\ pc = "s_crashed" =>
                /\ call.hit \in {{"textbbox"}, {"text"}, {"save"}}
                /\ exitCode = <<1>>
                /\ console = <<>>
                /\ writes = <<>>
          /\ pc = "s_done" =>
                /\ call.hit = {}
                /\ exitCode = <<0>>
                /\ Len(writes) = 1
                /\ writes[1].path = (IF Len(argv) > 1 THEN argv[2] ELSE "icon.png")
                /\ console = <<"v Created icon: " \o writes[1].path>>
          /\ pc \in {"s_font", "s_text", "s_save"} => exitCode = NotExited

C2_Witness ==
    /\ pc = "s_crashed"
    /\ world.loadable = {1}
    /\ call.hit = {"save"}
    /\ argv = <<"create_icon.py", "build-resources/icon.png">>
    /\ exitCode = <<1>>

\* the seven files of a run of main
ExpectedPaths ==
    << "/home/ai design/desk/build-resources/icon-16x16.png",
       "/home/ai design/desk/build-resources/icon-32x32.png",
       "/home/ai design/desk/build-resources/icon-64x64.png",
       "/home/ai design/desk/build-resources/icon-128x128.png",
       "/home/ai design/desk/build-resources/icon-256x256.png",
       "/home/ai design/desk/build-resources/icon-512x512.png",
       "/home/ai design/desk/build-resources/icon.png" >>

\* C7: a run of main in which no step fails writes exactly the seven files
\* icon-{size}x{size}.png of the six sizes, each the render of its size, and
\* icon.png, a 512 render; the seven paths are pairwise distinct; in any run
\* no path is written twice and no other path is written.
C7_SevenDistinctFiles ==
    IsDriver =>
        /\ Cardinality({StepPath(k) : k \in 1..(Len(sizes) + 1)}) = 7
        /\ \A k \in DOMAIN writes :
              /\ \E n \in DOMAIN ExpectedPaths : writes[k].path = ExpectedPaths[n]
              /\ \A j \in DOMAIN writes : j # k => writes[j].path # writes[k].path
        /\ (pc = "done" /\ \A k \in 1..7 : StepFailed(k) \notin Lines) =>
              /\ Len(writes) = 7
              /\ \A k \in 1..7 :
                    /\ writes[k].path = ExpectedPaths[k]
                    /\ writes[k].img.size = <<StepSize(k), StepSize(k)>>
                    /\ writes[k].img.mode = "RGBA"
                    /\ HasText(writes[k].img) \/ HasCircle(writes[k].img)

C7_Witness ==
    /\ pc = "done"
    /\ Len(writes) = 7
    /\ writes[3].path = "/home/ai design/desk/build-resources/icon-64x64.png"
    /\ writes[3].img.size = <<64, 64>>
    /\ writes[7].path = "/home/ai design/desk/build-resources/icon.png"
    /\ writes[7].img.size = <<512, 512>>

\* the console without the renderer's own message
DriverLines == SelectSeq(console, LAMBDA l : l # TextFailedLine)

\* the lines of the steps completed so far: the banner, then for each step
\* in the order 16, 32, 64, 128, 256, 512, main icon its "generating" line
\* and exactly one of its success or failure line (the renderer's message
\* only between the two), the success line only with the step's file written
StepLinesInOrder ==
    LET c == DriverLines
        n == StepsDone
    IN  /\ Len(c) = 1 + 2 * n + (IF pc = "done" THEN Len(SummaryLines) ELSE 0)
        /\ c[1] = BannerLine
        /\ \A k \in 1..n :
              /\ c[2 * k] = StepGenerating(k)
              /\ c[2 * k + 1] \in {SavedLine(StepPath(k)), StepFailed(k)}
              /\ c[2 * k + 1] = SavedLine(StepPath(k)) =>
                    StepPath(k) \in WrittenPaths
        /\ \A k \in DOMAIN console :
              console[k] = TextFailedLine =>
                  /\ k > 1 /\ k < Len(console)
                  /\ \E j \in 1..n : /\ console[k - 1] = StepGenerating(j)
                                     /\ console[k + 1] \in {SavedLine(StepPath(j)),
                                                            StepFailed(j)}

\* the summary block is the end of the console, after the seven steps
SummaryLast ==
    /\ StepsDone = Len(sizes) + 1
    /\ Len(DriverLines) >= Len(SummaryLines)
    /\ SubSeq(DriverLines, Len(DriverLines) - Len(SummaryLines) + 1,
              Len(DriverLines)) = SummaryLines

\* C8 as stated: the progress is printed in the order 16, 32, 64, 128, 256,
\* 512, main icon, each step's "generating" line followed by exactly one of
\* its success or failure line, the success line only after the file was
\* written, and in every run the summary block is printed after all seven
\* steps: a run of main that has ended has printed it.
C8_SummaryInEveryRun ==
    (IsDriver /\ pc # "start") =>
        /\ StepLinesInOrder
        /\ exitCode # NotExited => SummaryLast

\* C8 amended: the progress is printed in the order 16, 32, 64, 128, 256,
\* 512, main icon, each step's "generating" line followed by exactly one of
\* its success or failure line before the next step starts, the success
\* line only when the step's file is written.  In every run in which the
\* output directory creation succeeds the run does not end before the seven
\* steps and the summary block is printed last; a run in which it raises
\* ends having printed the banner only, no step and no summary.
C8_ProgressInSizeOrder ==
    (IsDriver /\ pc # "start") =>
        /\ StepLinesInOrder
        /\ pc = "done" => SummaryLast
        /\ pc = "crashed" => i = 0 /\ console = <<BannerLine>>
        /\ exitCode # NotExited => pc \in {"done", "crashed"}
        /\ \A k \in DOMAIN console :
              (\E n \in DOMAIN SummaryLines : console[k] = SummaryLines[n]) =>
                  pc = "done" /\ k > Len(console) - Len(SummaryLines)

C8_Witness ==
    /\ pc = "done"
    /\ console[2] = "generating 16x16 icon..."
    /\ console[3] = TextFailedLine
    /\ console[4] = "  v saved to /home/ai design/desk/build-resources/icon-16x16.png"
    /\ FailedLine(32) \in Lines
    /\ console[Len(console)] = SummaryLines[Len(SummaryLines)]

\* the first candidate that loads
FirstLoadable(lo) == CHOOSE k \in lo : \A j \in lo : k <= j

\* the image create_app_icon returns for a size, given only what happened in
\* that call: the fonts that load, the measured box, the calls that raised
ExpectedImage(s, lo, bbox, hit) ==
    LET f == IF lo = {} THEN DefaultFont
             ELSE [path |-> fonts_to_try[FirstLoadable(lo)],
                   size |-> (35 * s) \div 100]
        base == Draw(ImageNew("RGBA", s, BLUE), BorderOp(s))
    IN  IF hit \cap {"textbbox", "text"} = {}
        THEN Draw(base, TextOp(TextX(s, bbox), TextY(s, bbox), bbox, f, WHITE))
        ELSE Draw(base, EllipseOp(s))

\* C9: every call of create_app_icon is independent of the calls before it:
\* the font is chosen anew from the first candidate on, and the image a step
\* writes and whether the step fails are determined by the step's size and
\* by what happened in its own call, whatever steps came before and however
\* they ended.
C9_StepDependsOnOwnCallOnly ==
    (IsDriver /\ StepsDone >= 1) =>
        LET n == StepsDone
            s == call.size
            lo == world.loadable
            failed == StepFailed(n) \in Lines
        IN  /\ s = StepSize(n)
            /\ "rounded_rectangle" \notin call.hit =>
                  /\ call.tried = [k \in 1..(IF lo = {} THEN Len(fonts_to_try)
                                             ELSE FirstLoadable(lo)) |-> k]
                  /\ font = IF lo = {} THEN DefaultFont
                            ELSE [path |-> fonts_to_try[FirstLoadable(lo)],
                                  size |-> (35 * s) \div 100]
            /\ failed <=> call.hit \cap {"rounded_rectangle", "ellipse", "save"} # {}
            /\ ~failed =>
                  /\ writes # <<>>
                  /\ writes[Len(writes)].path = StepPath(n)
                  /\ writes[Len(writes)].img =
                        ExpectedImage(s, lo, TextBBox(s, world.metrics), call.hit)
            /\ \A j, k \in DOMAIN writes :
                  (/\ writes[j].img.size = writes[k].img.size
                   /\ HasText(writes[j].img) = HasText(writes[k].img)) =>
                      writes[j].img = writes[k].img

C9_Witness ==
    /\ pc = "done"
    /\ FailedLine(256) \in Lines
    /\ SavedLine(IconPath(512)) \in Lines
    /\ call.hit = {}
    /\ call.tried = <<1, 2>>
    /\ font = [path |-> "/System/Library/Fonts/Helvetica.ttc", size |-> 179]
    /\ writes[Len(writes)].img = writes[Len(writes) - 1].img

====
